---- MODULE Spec2Model ----
(***************************************************************************)
(* Model of plategaio.py: the Platega SDK client (PlategaClient), its      *)
(* pydantic request/response models and the error normalisation helper    *)
(* _raise_for_response.  Python objects are tagged records; the HTTP       *)
(* transport (requests.Session) answers every request nondeterministically *)
(* with a response or a transport failure.                                 *)
(***************************************************************************)
EXTENDS Integers, Sequences, FiniteSets, TLC

VARIABLES merchant_id, secret, timeout, headers, ctor, pc, call, ncalls

vars == <<merchant_id, secret, timeout, headers, ctor, pc, call, ncalls>>

(***************************************************************************)
(* Bounds                                                                  *)
(***************************************************************************)
MaxCalls == 2

(***************************************************************************)
(* Python values                                                           *)
(***************************************************************************)
NoneV == [t |-> "none"]

StrV(s) == [t |-> "str", s |-> s]

IntV(i) == [t |-> "int", i |-> i]

FloatV(i) == [t |-> "float", f |-> i]

BoolV(b) == [t |-> "bool", b |-> b]

ListV(l) == [t |-> "list", l |-> l]

DictV(d) == [t |-> "dict", d |-> d]

UuidV(u) == [t |-> "uuid", u |-> u]

DatetimeV(s) == [t |-> "datetime", iso |-> s]

\* dict helpers: a dict is a sequence of <<key, value>> pairs in insertion order
Keys(d) == {d[i][1] : i \in DOMAIN d}

HasKey(d, k) == k \in Keys(d)

Get(d, k) == IF HasKey(d, k) THEN d[CHOOSE i \in DOMAIN d : d[i][1] = k][2] ELSE NoneV

\* Python truthiness (bool(v))
Truthy(v) ==
    CASE v.t = "none" -> FALSE
      [] v.t = "str" -> v.s # ""
      [] v.t = "int" -> v.i # 0
      [] v.t = "float" -> v.f # 0
      [] v.t = "bool" -> v.b
      [] v.t = "list" -> v.l # <<>>
      [] v.t = "dict" -> v.d # <<>>
      [] OTHER -> TRUE

\* Python `a or b`
Or(a, b) == IF Truthy(a) THEN a ELSE b

Digits == <<"0", "1", "2", "3", "4", "5", "6", "7", "8", "9">>

RECURSIVE IntStr(_)
IntStr(n) ==
    IF n < 0 THEN "-" \o IntStr(0 - n)
    ELSE IF n < 10 THEN Digits[n + 1]
    ELSE IntStr(n \div 10) \o Digits[(n % 10) + 1]

\* str(UUID): the canonical lower-case hyphenated form of the 128-bit value
UuidStr(u) == "00000000-0000-0000-0000-00000000000" \o Digits[u + 1]

\* repr(v), as str() of a container prints its items
RECURSIVE PyRepr(_)
RECURSIVE PyReprItems(_)
RECURSIVE PyReprPairs(_)
PyRepr(v) ==
    CASE v.t = "none" -> "None"
      [] v.t = "str" -> "'" \o v.s \o "'"
      [] v.t = "int" -> IntStr(v.i)
      [] v.t = "float" -> IntStr(v.f) \o ".0"
      [] v.t = "bool" -> IF v.b THEN "True" ELSE "False"
      [] v.t = "list" -> "[" \o PyReprItems(v.l) \o "]"
      [] v.t = "dict" -> "{" \o PyReprPairs(v.d) \o "}"
      [] v.t = "uuid" -> "UUID('" \o UuidStr(v.u) \o "')"
      [] OTHER -> "<object>"

PyReprItems(l) ==
    IF l = <<>> THEN ""
    ELSE IF Len(l) = 1 THEN PyRepr(l[1])
    ELSE PyRepr(l[1]) \o ", " \o PyReprItems(Tail(l))

PyReprPairs(d) ==
    IF d = <<>> THEN ""
    ELSE IF Len(d) = 1 THEN "'" \o d[1][1] \o "': " \o PyRepr(d[1][2])
    ELSE "'" \o d[1][1] \o "': " \o PyRepr(d[1][2]) \o ", " \o PyReprPairs(Tail(d))

\* str(v)
PyStr(v) ==
    CASE v.t = "str" -> v.s
      [] v.t = "uuid" -> UuidStr(v.u)
      [] OTHER -> PyRepr(v)

\* the JSON text of a value as a server writes it (compact separators)
RECURSIVE JsonText(_)
RECURSIVE JsonItems(_)
RECURSIVE JsonPairs(_)
JsonText(v) ==
    CASE v.t = "none" -> "null"
      [] v.t = "str" -> "\"" \o v.s \o "\""
      [] v.t = "int" -> IntStr(v.i)
      [] v.t = "float" -> IntStr(v.f) \o ".0"
      [] v.t = "bool" -> IF v.b THEN "true" ELSE "false"
      [] v.t = "list" -> "[" \o JsonItems(v.l) \o "]"
      [] v.t = "dict" -> "{" \o JsonPairs(v.d) \o "}"
      [] OTHER -> "?"

JsonItems(l) ==
    IF l = <<>> THEN ""
    ELSE IF Len(l) = 1 THEN JsonText(l[1])
    ELSE JsonText(l[1]) \o "," \o JsonItems(Tail(l))

JsonPairs(d) ==
    IF d = <<>> THEN ""
    ELSE IF Len(d) = 1 THEN "\"" \o d[1][1] \o "\":" \o JsonText(d[1][2])
    ELSE "\"" \o d[1][1] \o "\":" \o JsonText(d[1][2]) \o "," \o JsonPairs(Tail(d))

(***************************************************************************)
(* Schema layer (pydantic models)                                          *)
(***************************************************************************)
ModelV(cls, fields, extra) == [t |-> "model", cls |-> cls, fields |-> fields, extra |-> extra]

\* a declared field: logical name, wire alias, annotation, Optional[...], no default
Field(name, alias, type, nullable, required) ==
    [name |-> name, alias |-> alias, type |-> type, nullable |-> nullable, required |-> required]

PaymentDetails ==
    << Field("amount", "amount", "float", FALSE, TRUE),
       Field("currency", "currency", "str", FALSE, TRUE) >>

CreateTransactionRequest ==
    << Field("paymentMethod", "paymentMethod", "int", FALSE, TRUE),
       Field("id", "id", "uuid", FALSE, TRUE),
       Field("paymentDetails", "paymentDetails", "PaymentDetails", FALSE, TRUE),
       Field("description", "description", "str", TRUE, FALSE),
       Field("return_url", "return", "str", TRUE, FALSE),
       Field("failedUrl", "failedUrl", "str", TRUE, FALSE),
       Field("payload", "payload", "any", TRUE, FALSE) >>

CreateTransactionResponse ==
    << Field("paymentMethod", "paymentMethod", "str", TRUE, TRUE),
       Field("transactionId", "transactionId", "str", TRUE, TRUE),
       Field("redirect", "redirect", "str", TRUE, TRUE),
       Field("return_url", "return", "str", TRUE, FALSE),
       Field("paymentDetails", "paymentDetails", "str", TRUE, FALSE),
       Field("status", "status", "str", TRUE, FALSE),
       Field("expiresIn", "expiresIn", "str", TRUE, FALSE),
       Field("merchantId", "merchantId", "str", TRUE, FALSE),
       Field("usdtRate", "usdtRate", "float", TRUE, FALSE) >>

TransactionStatusResponse ==
    << Field("id", "id", "str", TRUE, TRUE),
       Field("status", "status", "str", TRUE, TRUE),
       Field("paymentDetails", "paymentDetails", "dict", TRUE, FALSE),
       Field("merchantName", "merchantName", "str", TRUE, FALSE),
       Field("mechantId", "mechantId", "str", TRUE, FALSE),
       Field("comission", "comission", "float", TRUE, FALSE),
       Field("paymentMethod", "paymentMethod", "str", TRUE, FALSE),
       Field("expiresIn", "expiresIn", "str", TRUE, FALSE),
       Field("accountData", "accountData", "str", TRUE, FALSE),
       Field("return_url", "return", "str", TRUE, FALSE) >>

RateResponse ==
    << Field("paymentMethod", "paymentMethod", "int", FALSE, TRUE),
       Field("currencyFrom", "currencyFrom", "str", FALSE, TRUE),
       Field("currencyTo", "currencyTo", "str", FALSE, TRUE),
       Field("rate", "rate", "float", FALSE, TRUE),
       Field("updatedAt", "updatedAt", "datetime", TRUE, FALSE) >>

Fields(cls) ==
    CASE cls = "PaymentDetails" -> PaymentDetails
      [] cls = "CreateTransactionRequest" -> CreateTransactionRequest
      [] cls = "CreateTransactionResponse" -> CreateTransactionResponse
      [] cls = "TransactionStatusResponse" -> TransactionStatusResponse
      [] cls = "RateResponse" -> RateResponse

\* model_config of each class
ModelConfig(cls) ==
    CASE cls = "PaymentDetails" -> [validate_by_name |-> FALSE, extra |-> "ignore"]
      [] cls = "RateResponse" -> [validate_by_name |-> FALSE, extra |-> "allow"]
      [] OTHER -> [validate_by_name |-> TRUE, extra |-> "allow"]

Ok(v) == [ok |-> TRUE, v |-> v]

Err(exc) == [ok |-> FALSE, exc |-> exc]

\* the strings pydantic's lax mode reads as numbers, and as timestamps
IsNumeric(s) == \E n \in 0..99 : IntStr(n) = s

StrToInt(s) == CHOOSE n \in 0..99 : IntStr(n) = s

IsIsoDatetime(s) == s \in {"2024-01-01T00:00:00Z"}

IsUuidText(s) == \E u \in 0..9 : UuidStr(u) = s

TextToUuid(s) == CHOOSE u \in 0..9 : UuidStr(u) = s

RECURSIVE ValidatePython(_, _)

\* pydantic's lax-mode validation of one Python value against an annotation
ValidateValue(type, nullable, v) ==
    IF nullable /\ v.t = "none" THEN Ok(NoneV)
    ELSE CASE type = "any" -> Ok(v)
      [] type = "str" -> IF v.t = "str" THEN Ok(v) ELSE Err("ValidationError")
      [] type = "int" ->
            CASE v.t = "int" -> Ok(v)
              [] v.t = "bool" -> Ok(IntV(IF v.b THEN 1 ELSE 0))
              [] v.t = "float" -> Ok(IntV(v.f))
              [] v.t = "str" /\ IsNumeric(v.s) -> Ok(IntV(StrToInt(v.s)))
              [] OTHER -> Err("ValidationError")
      [] type = "float" ->
            CASE v.t = "float" -> Ok(v)
              [] v.t = "int" -> Ok(FloatV(v.i))
              [] v.t = "bool" -> Ok(FloatV(IF v.b THEN 1 ELSE 0))
              [] v.t = "str" /\ IsNumeric(v.s) -> Ok(FloatV(StrToInt(v.s)))
              [] OTHER -> Err("ValidationError")
      [] type = "dict" -> IF v.t = "dict" THEN Ok(v) ELSE Err("ValidationError")
      [] type = "datetime" ->
            CASE v.t = "datetime" -> Ok(v)
              [] v.t = "str" /\ IsIsoDatetime(v.s) -> Ok(DatetimeV(v.s))
              [] OTHER -> Err("ValidationError")
      [] type = "uuid" ->
            CASE v.t = "uuid" -> Ok(v)
              [] v.t = "str" /\ IsUuidText(v.s) -> Ok(UuidV(TextToUuid(v.s)))
              [] OTHER -> Err("ValidationError")
      [] type = "PaymentDetails" ->
            CASE v.t = "model" /\ v.cls = type -> Ok(v)
              [] v.t = "dict" -> ValidatePython(type, v.d)
              [] OTHER -> Err("ValidationError")

\* the input key a field is read from: its alias, else (validate_by_name) its name
FieldKey(f, d, cfg) ==
    IF HasKey(d, f.alias) THEN <<f.alias>>
    ELSE IF cfg.validate_by_name /\ HasKey(d, f.name) THEN <<f.name>>
    ELSE <<>>

FieldResult(f, d, cfg) ==
    LET k == FieldKey(f, d, cfg) IN
    IF k = <<>> THEN (IF f.required THEN Err("ValidationError") ELSE Ok(NoneV))
    ELSE ValidateValue(f.type, f.nullable, Get(d, k[1]))

\* the model validator (__pydantic_validator__.validate_python) on a mapping
ValidatePython(cls, d) ==
    LET fs == Fields(cls)
        cfg == ModelConfig(cls)
        res == [i \in DOMAIN fs |-> FieldResult(fs[i], d, cfg)]
        used == UNION {{FieldKey(fs[i], d, cfg)[j] : j \in DOMAIN FieldKey(fs[i], d, cfg)} : i \in DOMAIN fs}
        extra == IF cfg.extra = "allow" THEN SelectSeq(d, LAMBDA p : p[1] \notin used) ELSE <<>>
    IN  IF \E i \in DOMAIN fs : ~res[i].ok THEN Err("ValidationError")
        ELSE Ok(ModelV(cls, [i \in DOMAIN fs |-> <<fs[i].name, res[i].v>>], extra))

\* Model.model_validate(data)
ModelValidate(cls, data) ==
    CASE data.t = "dict" -> ValidatePython(cls, data.d)
      [] data.t = "model" /\ data.cls = cls -> Ok(data)
      [] OTHER -> Err("ValidationError")

\* the keyword arguments `**data` passes
Kwargs(data) == data.d

\* a fallback that builds the model without validating (absent fields unset)
ModelConstructLenient(cls, data) ==
    IF data.t # "dict" THEN Err("TypeError")
    ELSE LET fs == Fields(cls)
             known == {fs[i].name : i \in DOMAIN fs} \cup {fs[i].alias : i \in DOMAIN fs}
         IN  Ok(ModelV(cls,
                       [i \in DOMAIN fs |-> <<fs[i].name,
                            IF HasKey(data.d, fs[i].alias) THEN Get(data.d, fs[i].alias)
                            ELSE Get(data.d, fs[i].name)>>],
                       SelectSeq(data.d, LAMBDA p : p[1] \notin known)))

\* Model(**data): unpacking needs a mapping; __init__ runs the model validator
ModelInit(cls, data) ==
    IF data.t # "dict" THEN Err("TypeError")
    ELSE ValidatePython(cls, Kwargs(data))

\* getattr(model, name): a declared field, else an extra (__pydantic_extra__)
Attr(m, name) == IF HasKey(m.fields, name) THEN Get(m.fields, name) ELSE Get(m.extra, name)

RECURSIVE ModelDump(_, _, _)

DumpValue(v, by_alias, exclude_none) ==
    IF v.t = "model" THEN DictV(ModelDump(v, by_alias, exclude_none)) ELSE v

\* model.model_dump(by_alias=..., exclude_none=...): declared fields, then extras
ModelDump(m, by_alias, exclude_none) ==
    LET fs == Fields(m.cls)
        kept(p) == ~(exclude_none /\ p[2].t = "none")
        declared == [i \in DOMAIN fs |->
                        << IF by_alias THEN fs[i].alias ELSE fs[i].name,
                           DumpValue(m.fields[i][2], by_alias, exclude_none) >>]
    IN  SelectSeq(declared, kept) \o SelectSeq(m.extra, kept)

(***************************************************************************)
(* HTTP transport (requests) as the client sees it                         *)
(***************************************************************************)
NoJson == [t |-> "nojson"]

Reason(status) ==
    CASE status = 200 -> "OK"
      [] status = 201 -> "Created"
      [] status = 304 -> "Not Modified"
      [] status = 402 -> "Payment Required"
      [] status = 500 -> "Internal Server Error"
      [] OTHER -> ""

\* a response whose body is the JSON text of v: resp.text, and what resp.json() decodes
JsonResponse(status, v) ==
    [status_code |-> status, reason |-> Reason(status), text |-> JsonText(v), body |-> v]

\* a response whose body is not JSON: resp.json() raises
RawResponse(status, text) ==
    [status_code |-> status, reason |-> Reason(status), text |-> text, body |-> NoJson]

\* requests.Response.ok: raise_for_status() raises for 400 <= status < 600 only
RespOk(resp) == ~(400 <= resp.status_code /\ resp.status_code < 600)

TransportFailure(exc) == [failed |-> TRUE, exc |-> exc]

Delivered(resp) == [failed |-> FALSE, resp |-> resp]

(***************************************************************************)
(* Outcomes of a call                                                      *)
(***************************************************************************)
Return(m) == [kind |-> "return", model |-> m]

Raise(exc) == [kind |-> "raise", exc |-> exc]

\* PlategaHTTPError(status_code, message, response)
PlategaHTTPError(status_code, message, response) ==
    [kind |-> "raise", exc |-> "PlategaHTTPError", status_code |-> status_code,
     message |-> message, response |-> response]

NoRaise == [kind |-> "none"]

\* a message source that never looks for the `message` field
ErrorMessageSourceWholeBody(resp) ==
    IF resp.body = NoJson \/ resp.body.t # "dict" THEN Or(StrV(resp.text), StrV(resp.reason))
    ELSE resp.body

\* a message source that prints every decoded body, object or not
ErrorMessageSourceDecoded(resp) ==
    IF resp.body = NoJson THEN Or(StrV(resp.text), StrV(resp.reason))
    ELSE IF resp.body.t # "dict" THEN resp.body
    ELSE Or(Get(resp.body.d, "message"), resp.body)

\* the message source chosen by _raise_for_response's try/except
ErrorMessageSource(resp) ==
    IF resp.body = NoJson THEN Or(StrV(resp.text), StrV(resp.reason))
    ELSE IF resp.body.t # "dict" THEN Or(StrV(resp.text), StrV(resp.reason))
    ELSE Or(Get(resp.body.d, "message"), resp.body)

\* _raise_for_response(resp)
RaiseForResponse(resp) ==
    IF ~RespOk(resp)
    THEN PlategaHTTPError(resp.status_code, PyStr(ErrorMessageSource(resp)), resp.text)
    ELSE NoRaise

\* the tail of each operation: data = resp.json(); strict parse, fallback on ValidationError
ParseResponse(cls, resp) ==
    IF resp.body = NoJson THEN Raise("JSONDecodeError")
    ELSE LET data == resp.body
             strict == ModelValidate(cls, data)
             fallback == ModelInit(cls, data)
         IN  IF strict.ok THEN Return(strict.v)
             ELSE IF strict.exc # "ValidationError" THEN Raise(strict.exc)
             ELSE IF fallback.ok THEN Return(fallback.v)
             ELSE Raise(fallback.exc)

\* what a call makes of the transport's answer
Outcome(cls, tr) ==
    IF tr.failed THEN Raise(tr.exc)
    ELSE IF RaiseForResponse(tr.resp).kind = "raise" THEN RaiseForResponse(tr.resp)
    ELSE ParseResponse(cls, tr.resp)

(***************************************************************************)
(* Client component                                                        *)
(***************************************************************************)
BASE_URL == "https://app.platega.io"

DefaultTimeout == 15

\* the session's default headers set by __init__
SessionHeaders(mid, sec) ==
    ("X-MerchantId" :> PyStr(StrV(mid))) @@ ("X-Secret" :> PyStr(StrV(sec))) @@
    ("Content-Type" :> "application/json") @@ ("Accept" :> "application/json")

\* a request sent outside the session, without its default headers
SessionRequestNoDefaults(method, url, json, params, to) ==
    [method |-> method, url |-> url,
     headers |-> ("Content-Type" :> "application/json") @@ ("Accept" :> "application/json"),
     json |-> json, params |-> params, timeout |-> to]

\* self._session.post / .get: the request leaves with the session's headers
SessionRequest(method, url, json, params, to) ==
    [method |-> method, url |-> url, headers |-> headers, json |-> json,
     params |-> params, timeout |-> to]

\* body[key] = value on a dict, keeping the key's position
SetItem(d, k, v) == [i \in DOMAIN d |-> IF d[i][1] = k THEN <<k, v>> ELSE d[i]]

\* a body dumped under the logical field names
CreateTransactionBodyByName(payload) ==
    LET body == ModelDump(payload, FALSE, TRUE) IN
    IF Get(body, "id").t = "uuid" THEN SetItem(body, "id", StrV(PyStr(Get(body, "id"))))
    ELSE body

\* the body create_transaction sends for a payload
CreateTransactionBody(payload) ==
    LET body == ModelDump(payload, TRUE, TRUE) IN
    IF Get(body, "id").t = "uuid" THEN SetItem(body, "id", StrV(PyStr(Get(body, "id"))))
    ELSE body

\* query parameters that always carry the client's own merchant id
GetRateParamsOwnMerchant(payment_method, currency_from, currency_to, mid) ==
    << <<"merchantId", StrV(merchant_id)>>,
       <<"paymentMethod", payment_method>>,
       <<"currencyFrom", currency_from>>,
       <<"currencyTo", currency_to>> >>

\* the query parameters get_rate sends
GetRateParams(payment_method, currency_from, currency_to, mid) ==
    << <<"merchantId", Or(mid, StrV(merchant_id))>>,
       <<"paymentMethod", payment_method>>,
       <<"currencyFrom", currency_from>>,
       <<"currencyTo", currency_to>> >>

(***************************************************************************)
(* Inputs                                                                  *)
(***************************************************************************)
MerchantIds == {"M1", "M2"}

Secrets == {"S1"}

Timeouts == {DefaultTimeout, 3}

Statuses == {200, 201, 304, 402, 500, 600}

Obj2(k1, v1, k2, v2) == DictV(<< <<k1, v1>>, <<k2, v2>> >>)

Obj1(k1, v1) == DictV(<< <<k1, v1>> >>)

\* bodies any endpoint may answer with
CommonBodies ==
    { Obj1("message", StrV("insufficient funds")),
      Obj1("message", StrV("")),
      Obj1("message", IntV(7)),
      Obj2("message", NoneV, "code", IntV(3)),
      Obj1("error", StrV("bad")),
      DictV(<<>>),
      ListV(<<IntV(1), IntV(2)>>),
      NoneV }

RawTexts == {"", "<html>oops</html>"}

CreateBase ==
    << <<"paymentMethod", StrV("5")>>, <<"transactionId", StrV("t1")>>,
       <<"redirect", StrV("https://pay/1")>> >>

CreateBodies ==
    { DictV(CreateBase),
      DictV(CreateBase \o << <<"return", StrV("https://x/ok")>>, <<"foo", IntV(1)>> >>),
      DictV(Tail(CreateBase)),
      DictV(SetItem(CreateBase, "paymentMethod", IntV(5))),
      Obj1("foo", IntV(1)) }

StatusBase == << <<"id", StrV("t1")>>, <<"status", StrV("PENDING")>> >>

StatusBodies ==
    { DictV(StatusBase),
      DictV(StatusBase \o << <<"foo", IntV(1)>> >>),
      DictV(Tail(StatusBase)),
      DictV(SetItem(StatusBase, "id", IntV(1))),
      Obj1("foo", IntV(1)) }

RateBase ==
    << <<"paymentMethod", IntV(5)>>, <<"currencyFrom", StrV("USD")>>,
       <<"currencyTo", StrV("EUR")>>, <<"rate", IntV(2)>> >>

RateBodies ==
    { DictV(RateBase),
      DictV(SetItem(RateBase, "paymentMethod", StrV("5")) \o << <<"foo", IntV(1)>> >>),
      DictV(Tail(RateBase)),
      DictV(SetItem(RateBase, "paymentMethod", StrV("abc"))),
      Obj1("foo", IntV(1)) }

\* everything the transport may do with a request to an endpoint
TransportResults(bodies) ==
    {Delivered(JsonResponse(st, v)) : st \in Statuses, v \in CommonBodies \cup bodies}
    \cup {Delivered(RawResponse(st, txt)) : st \in Statuses, txt \in RawTexts}
    \cup {TransportFailure("ConnectionError"), TransportFailure("Timeout")}

RequestBase ==
    << <<"paymentMethod", IntV(5)>>, <<"id", StrV(UuidStr(1))>>,
       <<"paymentDetails", Obj2("amount", IntV(3), "currency", StrV("USD"))>> >>

\* the keyword arguments callers build a CreateTransactionRequest from
RequestKwargs ==
    { DictV(RequestBase),
      DictV(SetItem(RequestBase, "id", UuidV(2))),
      DictV(RequestBase \o << <<"return_url", StrV("https://x/ok")>> >>),
      DictV(RequestBase \o << <<"return", StrV("https://x/ok")>>, <<"description", StrV("")>> >>),
      DictV(RequestBase \o << <<"failedUrl", StrV("https://x/no")>>, <<"payload", Obj1("k", NoneV)>> >>),
      DictV(RequestBase \o << <<"note", StrV("gift")>>, <<"description", NoneV>> >>),
      DictV(RequestBase \o << <<"tag", NoneV>> >>) }

\* the valid request models
Payloads ==
    {ModelInit("CreateTransactionRequest", kw).v :
        kw \in {k \in RequestKwargs : ModelInit("CreateTransactionRequest", k).ok}}

TransactionIds == {"t1", "t2"}

PaymentMethods == {IntV(5), IntV(0)}

CurrenciesFrom == {StrV("USD")}

CurrenciesTo == {StrV("EUR"), StrV("USD")}

MerchantOverrides == {NoneV, StrV(""), StrV("M9")}

NoTransport == [failed |-> FALSE, pending |-> TRUE]

NoCall == [op |-> "none", args |-> <<>>, sent |-> <<>>, tr |-> NoTransport, out |-> NoRaise]

(***************************************************************************)
(* Operations.  A call blocks in the session's post/get: the first step    *)
(* builds and issues the request, the second runs when the transport       *)
(* answers or fails.                                                       *)
(***************************************************************************)
\* PlategaClient(merchant_id, secret, timeout=15)
Init ==
    \E mid \in MerchantIds, sec \in Secrets, to \in Timeouts :
        /\ merchant_id = mid
        /\ secret = sec
        /\ timeout = to
        /\ headers = SessionHeaders(mid, sec)
        /\ ctor = [merchant_id |-> mid, secret |-> sec, timeout |-> to]
        /\ pc = "idle"
        /\ call = NoCall
        /\ ncalls = 0

\* a call enters an operation and issues its request
Issue(op, args, request) ==
    /\ pc = "idle"
    /\ ncalls < MaxCalls
    /\ pc' = "waiting"
    /\ call' = [op |-> op, args |-> args, sent |-> <<request>>, tr |-> NoTransport, out |-> NoRaise]
    /\ ncalls' = ncalls + 1
    /\ UNCHANGED <<merchant_id, secret, timeout, headers, ctor>>

\* the transport answers (or fails) and the operation runs to its end
Complete(op, cls, tr) ==
    /\ pc = "waiting"
    /\ call.op = op
    /\ pc' = "idle"
    /\ call' = [call EXCEPT !.tr = tr, !.out = Outcome(cls, tr)]
    /\ UNCHANGED <<merchant_id, secret, timeout, headers, ctor, ncalls>>

create_transaction(payload) ==
    Issue("create_transaction", payload,
          SessionRequest("POST", BASE_URL \o "/transaction/process",
                         DictV(CreateTransactionBody(payload)), <<>>, timeout))

create_transaction_response(tr) ==
    Complete("create_transaction", "CreateTransactionResponse", tr)

get_transaction_status(transaction_id) ==
    Issue("get_transaction_status", transaction_id,
          SessionRequest("GET", BASE_URL \o "/transaction/" \o transaction_id, NoneV, <<>>, timeout))

get_transaction_status_response(tr) ==
    Complete("get_transaction_status", "TransactionStatusResponse", tr)

get_rate(payment_method, currency_from, currency_to, mid) ==
    Issue("get_rate",
          [payment_method |-> payment_method, currency_from |-> currency_from,
           currency_to |-> currency_to, merchant_id |-> mid],
          SessionRequest("GET", BASE_URL \o "/rates/payment_method_rate", NoneV,
                         GetRateParams(payment_method, currency_from, currency_to, mid), timeout))

get_rate_response(tr) ==
    Complete("get_rate", "RateResponse", tr)

Next ==
    \/ \E payload \in Payloads : create_transaction(payload)
    \/ \E tr \in TransportResults(CreateBodies) : create_transaction_response(tr)
    \/ \E transaction_id \in TransactionIds : get_transaction_status(transaction_id)
    \/ \E tr \in TransportResults(StatusBodies) : get_transaction_status_response(tr)
    \/ \E payment_method \in PaymentMethods, currency_from \in CurrenciesFrom,
          currency_to \in CurrenciesTo, mid \in MerchantOverrides :
            get_rate(payment_method, currency_from, currency_to, mid)
    \/ \E tr \in TransportResults(RateBodies) : get_rate_response(tr)

Spec == Init /\ [][Next]_vars

(***************************************************************************)
(* Properties                                                              *)
(***************************************************************************)
\* the response model each operation parses into
OpClass(op) ==
    CASE op = "create_transaction" -> "CreateTransactionResponse"
      [] op = "get_transaction_status" -> "TransactionStatusResponse"
      [] op = "get_rate" -> "RateResponse"

Done == pc = "idle" /\ call.op # "none"

Answered == Done /\ ~call.tr.failed

Is2xx(status) == 200 <= status /\ status < 300

RaisedHTTPError == call.out.kind = "raise" /\ call.out.exc = "PlategaHTTPError"

HasMessage(body) == body # NoJson /\ body.t = "dict" /\ HasKey(body.d, "message")

\* C1: every response whose status is outside 2xx (1xx/3xx as well as 4xx/5xx) makes
\* the operation raise PlategaHTTPError and never return a model.
C1_NonSuccessRaises ==
    (Answered /\ ~Is2xx(call.tr.resp.status_code)) => RaisedHTTPError

\* C2 as stated: for status >= 400 and a JSON-object body with a `message` field of
\* any value, the error carries the HTTP status and the `message` field as its message.
C2_MessageFieldAnyValue ==
    (Answered /\ call.tr.resp.status_code >= 400 /\ HasMessage(call.tr.resp.body)) =>
        /\ RaisedHTTPError
        /\ call.out.status_code = call.tr.resp.status_code
        /\ StrV(call.out.message) = Get(call.tr.resp.body.d, "message")

\* C2 amended: for a status in 400..599 and a JSON-object body whose `message` field
\* is truthy, the error carries the HTTP status and the string form of that field.
C2_TruthyMessage ==
    (Answered /\ call.tr.resp.status_code >= 400 /\ call.tr.resp.status_code < 600
        /\ HasMessage(call.tr.resp.body)
        /\ Truthy(Get(call.tr.resp.body.d, "message"))) =>
        /\ RaisedHTTPError
        /\ call.out.status_code = call.tr.resp.status_code
        /\ call.out.message = PyStr(Get(call.tr.resp.body.d, "message"))

C2_Witness ==
    /\ Answered
    /\ call.tr.resp.status_code = 402
    /\ call.tr.resp.body = Obj1("message", StrV("insufficient funds"))
    /\ call.out.message = "insufficient funds"

\* C3: a 2xx response whose JSON-object body the strict validation rejects (missing
\* required field, type mismatch) still ends in a returned model, never in a raise.
C3_FallbackReturnsModel ==
    (Answered /\ Is2xx(call.tr.resp.status_code) /\ call.tr.resp.body # NoJson
        /\ call.tr.resp.body.t = "dict"
        /\ ~ModelValidate(OpClass(call.op), call.tr.resp.body).ok) =>
        call.out.kind = "return"

\* the wire value of a request field value
WireValue(v) ==
    CASE v.t = "uuid" -> StrV(UuidStr(v.u))
      [] v.t = "model" -> DictV(<< <<"amount", Get(v.fields, "amount")>>,
                                   <<"currency", Get(v.fields, "currency")>> >>)
      [] OTHER -> v

\* C4: the body create_transaction sends holds every set field under its wire name
\* (return_url under `return`), omits every unset optional field, has no null
\* placeholder, and carries `id` as the canonical UUID string.
C4_WireBody ==
    call.op = "create_transaction" =>
        LET body == call.sent[1].json.d
            fs == CreateTransactionRequest
        IN  /\ \A i \in DOMAIN fs :
                    LET v == Get(call.args.fields, fs[i].name) IN
                    IF v.t = "none" THEN ~HasKey(body, fs[i].alias)
                    ELSE HasKey(body, fs[i].alias) /\ Get(body, fs[i].alias) = WireValue(v)
            /\ ~HasKey(body, "return_url")
            /\ \A i \in DOMAIN body : body[i][2].t # "none"
            /\ Get(body, "id").t = "str"
            /\ Keys(body) \subseteq {fs[i].alias : i \in DOMAIN fs} \cup Keys(call.args.extra)

C4_Witness ==
    /\ call.op = "create_transaction"
    /\ Get(call.args.fields, "return_url") = StrV("https://x/ok")
    /\ Get(call.args.fields, "description").t = "none"
    /\ Get(call.sent[1].json.d, "return") = StrV("https://x/ok")
    /\ Get(call.sent[1].json.d, "id") = StrV("00000000-0000-0000-0000-000000000001")

\* the four query parameters of a get_rate request, given the merchantId value
RateQuery(mid) ==
    LET params == call.sent[1].params IN
    /\ Len(params) = 4
    /\ Keys(params) = {"merchantId", "paymentMethod", "currencyFrom", "currencyTo"}
    /\ Get(params, "merchantId") = mid
    /\ Get(params, "paymentMethod") = call.args.payment_method
    /\ Get(params, "currencyFrom") = call.args.currency_from
    /\ Get(params, "currencyTo") = call.args.currency_to

\* C5 as stated: merchantId is the supplied merchant_id whenever the caller passes
\* one (an empty string included), and the client's own only when none is passed.
C5_AnySuppliedMerchant ==
    call.op = "get_rate" =>
        RateQuery(IF call.args.merchant_id # NoneV THEN call.args.merchant_id
                  ELSE StrV(ctor.merchant_id))

\* C5 amended: merchantId is the supplied merchant_id when it is a non-empty string,
\* and the client's own when none or an empty string is passed.
C5_NonEmptyMerchant ==
    call.op = "get_rate" =>
        RateQuery(IF call.args.merchant_id # NoneV /\ call.args.merchant_id # StrV("")
                  THEN call.args.merchant_id
                  ELSE StrV(ctor.merchant_id))

C5_Witness ==
    /\ call.op = "get_rate"
    /\ call.args.merchant_id = StrV("")
    /\ ctor.merchant_id = "M1"
    /\ Get(call.sent[1].params, "merchantId") = StrV("M1")
    /\ Get(call.sent[1].params, "paymentMethod") = IntV(5)

\* the keys a response model declares (names and aliases)
Declared(cls) ==
    {Fields(cls)[i].name : i \in DOMAIN Fields(cls)} \cup {Fields(cls)[i].alias : i \in DOMAIN Fields(cls)}

\* C6: a 2xx JSON-object body with an undeclared key parses and the key's value is
\* retrievable unchanged from the returned model; every extra field of the request
\* appears with the same key and value in the body sent.
C6_ExtrasPreserved ==
    /\ (Answered /\ Is2xx(call.tr.resp.status_code) /\ call.tr.resp.body # NoJson
            /\ call.tr.resp.body.t = "dict"
            /\ Keys(call.tr.resp.body.d) \ Declared(OpClass(call.op)) # {}) =>
            /\ call.out.kind = "return"
            /\ \A k \in Keys(call.tr.resp.body.d) \ Declared(OpClass(call.op)) :
                    Attr(call.out.model, k) = Get(call.tr.resp.body.d, k)
    /\ (Done /\ call.op = "create_transaction") =>
            \A i \in DOMAIN call.args.extra :
                /\ HasKey(call.sent[1].json.d, call.args.extra[i][1])
                /\ Get(call.sent[1].json.d, call.args.extra[i][1]) = call.args.extra[i][2]

C8_OneRequestFailureSurfaces ==
    call.op # "none" =>
        /\ Len(call.sent) = 1
        /\ call.sent[1].timeout = timeout
        /\ call.op = "create_transaction" =>
                call.sent[1].method = "POST" /\ call.sent[1].url = BASE_URL \o "/transaction/process"
        /\ call.op = "get_transaction_status" =>
                call.sent[1].method = "GET" /\ call.sent[1].url = BASE_URL \o "/transaction/" \o call.args
        /\ call.op = "get_rate" =>
                call.sent[1].method = "GET" /\ call.sent[1].url = BASE_URL \o "/rates/payment_method_rate"
        /\ (Done /\ call.tr.failed) => call.out = Raise(call.tr.exc)
        /\ (Answered /\ ~Is2xx(call.tr.resp.status_code)) => call.out.kind = "raise"

\* C9 as stated: the raised error's message is the string form of the decoded body
\* when the body decodes as JSON (object or not) without a `message` field, and the
\* raw text, or the reason phrase for an empty body, when it does not decode.
C9_AnyDecodedBody ==
    (Answered /\ RaisedHTTPError) =>
        LET resp == call.tr.resp IN
        /\ (resp.body # NoJson /\ ~HasMessage(resp.body)) => call.out.message = PyStr(resp.body)
        /\ (resp.body = NoJson /\ resp.text # "") => call.out.message = resp.text
        /\ (resp.body = NoJson /\ resp.text = "") => call.out.message = resp.reason

\* C9 amended: the message is the string form of the decoded body when the body
\* decodes as a JSON object without a `message` field, and the raw text (the reason
\* phrase for an empty body) when it does not decode or decodes to a non-object.
C9_ObjectOrRawText ==
    (Answered /\ RaisedHTTPError) =>
        LET resp == call.tr.resp IN
        /\ (resp.body # NoJson /\ resp.body.t = "dict" /\ ~HasMessage(resp.body)) =>
                call.out.message = PyStr(resp.body)
        /\ ((resp.body = NoJson \/ resp.body.t # "dict") /\ resp.text # "") =>
                call.out.message = resp.text
        /\ ((resp.body = NoJson \/ resp.body.t # "dict") /\ resp.text = "") =>
                call.out.message = resp.reason

C9_Witness ==
    /\ Answered
    /\ RaisedHTTPError
    /\ call.tr.resp.body = ListV(<<IntV(1), IntV(2)>>)
    /\ call.out.message = "[1,2]"
    /\ PyStr(call.tr.resp.body) = "[1, 2]"

\* every JSON-object body an endpoint may answer with
ObjectBodies(op) ==
    {b \in CommonBodies \cup
           (CASE op = "create_transaction" -> CreateBodies
              [] op = "get_transaction_status" -> StatusBodies
              [] op = "get_rate" -> RateBodies) : b.t = "dict"}

\* C10: Model(**data) accepts exactly the JSON-object bodies Model.model_validate(data)
\* accepts and yields the same model, so a call whose body the strict path rejects
\* ends by raising the validation error, and no fallback model is ever returned.
C10_FallbackSameValidation ==
    /\ \A op \in {"create_transaction", "get_transaction_status", "get_rate"} :
            \A b \in ObjectBodies(op) : ModelInit(OpClass(op), b) = ModelValidate(OpClass(op), b)
    /\ (Answered /\ RespOk(call.tr.resp) /\ call.tr.resp.body # NoJson
            /\ call.tr.resp.body.t = "dict") =>
            LET strict == ModelValidate(OpClass(call.op), call.tr.resp.body) IN
            IF strict.ok THEN call.out = Return(strict.v)
            ELSE call.out = Raise("ValidationError")

C10_Witness ==
    /\ Answered
    /\ call.op = "get_rate"
    /\ call.tr.resp.status_code = 200
    /\ call.tr.resp.body = DictV(Tail(RateBase))
    /\ ~ModelValidate("RateResponse", call.tr.resp.body).ok
    /\ call.out = Raise("ValidationError")
====
